---- MODULE Spec2Model ----
(***************************************************************************)
(* Model of password_system.py: Password, PasswordPolicy,                  *)
(* PasswordGenerator and the Basic/Advanced password analyzers.            *)
(*                                                                         *)
(* A Python str is modelled as a sequence of one-character strings.  A     *)
(* Python value handed to Password(...) is a record with its type, so that *)
(* non-string arguments (12345, 0, None) can be told from strings.         *)
(* entropy() returns a float rounded to 2 decimals; the model holds it as  *)
(* an integer number of hundredths.                                        *)
(***************************************************************************)
EXTENDS Integers, Sequences, FiniteSets, TLC

VARIABLES policy, password, arg, length, chars, attempts, pc, err, ret

vars == <<policy, password, arg, length, chars, attempts, pc, err, ret>>

---------------------------------------------------------------------------
(* Bounds of the model                                                     *)

\* PasswordPolicy.min_length is drawn from 0..MaxMinLength
MaxMinLength == 3
\* generate(length) is called with length in 0..MaxLength
MaxLength == 5
\* iterations of the generator's `while True` loop that the model follows
MaxAttempts == 3
\* Password(value): strings over ClassSample of at most this many characters
MaxInputLen == 3
\* analyzer inputs over PatternSample of at most this many characters
MaxPatternLen == 5
\* analyzer inputs: a base over ClassSample of at most MaxBaseLen characters
\* followed by at most MaxPad blanks
MaxBaseLen == 4
MaxPad == 4

---------------------------------------------------------------------------
(* The `string` module's character classes                                 *)

ascii_uppercase ==
    <<"A","B","C","D","E","F","G","H","I","J","K","L","M",
      "N","O","P","Q","R","S","T","U","V","W","X","Y","Z">>

ascii_lowercase ==
    <<"a","b","c","d","e","f","g","h","i","j","k","l","m",
      "n","o","p","q","r","s","t","u","v","w","x","y","z">>

digits == <<"0","1","2","3","4","5","6","7","8","9">>

\* the grave accent is written "grave": a TLA+ string cannot hold it
punctuation ==
    <<"!","\"","#","$","%","&","'","(",")","*","+",",","-",".","/",":",
      ";","<","=",">","?","@","[","\\","]","^","_","grave","{","|","}","~">>

ascii_letters == ascii_lowercase \o ascii_uppercase

Range(s) == {s[i] : i \in 1..Len(s)}

\* str.isupper / str.islower / str.isdigit on one character
isupper(c) == \E i \in 1..Len(ascii_uppercase) : ascii_uppercase[i] = c

islower(c) == \E i \in 1..Len(ascii_lowercase) : ascii_lowercase[i] = c

isdigit(c) == \E i \in 1..Len(digits) : digits[i] = c

\* str.lower(): an uppercase letter becomes the lowercase letter at the same
\* index, every other character is kept
lower_char(c) ==
    IF isupper(c)
      THEN ascii_lowercase[CHOOSE i \in 1..Len(ascii_uppercase) : ascii_uppercase[i] = c]
      ELSE c

lower(s) == [i \in 1..Len(s) |-> lower_char(s[i])]

---------------------------------------------------------------------------
(* Python values handed to Password(...)                                   *)

PyStr(s) == [type |-> "str", chars |-> s, num |-> 0]

PyInt(n) == [type |-> "int", chars |-> <<>>, num |-> n]

PyNone == [type |-> "NoneType", chars |-> <<>>, num |-> 0]

\* isinstance(value, str)
isinstance_str(v) == v.type = "str"

\* truth value of `value` in `if not value`
Truthy(v) ==
    CASE v.type = "str" -> Len(v.chars) > 0
      [] v.type = "int" -> v.num # 0
      [] OTHER -> FALSE

---------------------------------------------------------------------------
(* class Password                                                          *)

NoPassword == [exists |-> FALSE, value |-> <<>>]

\* mutation: the emptiness test comes before the type test
PasswordInitEmptyFirst(v) ==
    IF ~Truthy(v)
      THEN [raised |-> "ValueError", object |-> NoPassword]
      ELSE IF ~isinstance_str(v)
             THEN [raised |-> "TypeError", object |-> NoPassword]
             ELSE [raised |-> "none", object |-> [exists |-> TRUE, value |-> v.chars]]

\* Password.__init__: the exception raised, or the object built
PasswordInit(v) ==
    IF ~isinstance_str(v)
      THEN [raised |-> "TypeError", object |-> NoPassword]
      ELSE IF ~Truthy(v)
             THEN [raised |-> "ValueError", object |-> NoPassword]
             ELSE [raised |-> "none", object |-> [exists |-> TRUE, value |-> v.chars]]

masked(pw) == [i \in 1..Len(pw.value) |-> "*"]

password_length(pw) == Len(pw.value)

contains_uppercase(pw) == \E i \in 1..Len(pw.value) : isupper(pw.value[i])

contains_lowercase(pw) == \E i \in 1..Len(pw.value) : islower(pw.value[i])

contains_digit(pw) == \E i \in 1..Len(pw.value) : isdigit(pw.value[i])

contains_special(pw) == \E i \in 1..Len(pw.value) : pw.value[i] \in Range(punctuation)

---------------------------------------------------------------------------
(* class PasswordPolicy                                                    *)

PasswordPolicy(m, u, l, d, s) ==
    [min_length |-> m, require_upper |-> u, require_lower |-> l,
     require_digit |-> d, require_special |-> s]

\* mutation: a requirement is tested whether enabled or not
ValidateIgnoringFlags(pol, pw) ==
    /\ password_length(pw) >= pol.min_length
    /\ pol.require_upper /\ contains_uppercase(pw)
    /\ ~pol.require_lower \/ contains_lowercase(pw)
    /\ ~pol.require_digit \/ contains_digit(pw)
    /\ ~pol.require_special \/ contains_special(pw)

\* PasswordPolicy.validate: all([...]) of the five tests
Validate(pol, pw) ==
    /\ password_length(pw) >= pol.min_length
    /\ ~pol.require_upper \/ contains_uppercase(pw)
    /\ ~pol.require_lower \/ contains_lowercase(pw)
    /\ ~pol.require_digit \/ contains_digit(pw)
    /\ ~pol.require_special \/ contains_special(pw)

---------------------------------------------------------------------------
(* class BasicPasswordAnalyzer                                             *)

Chars8 == <<"p","a","s","s","w","o","r","d">>

COMMON_PASSWORDS ==
    {Chars8,
     <<"1","2","3","4","5","6">>,
     <<"q","w","e","r","t","y">>,
     <<"a","b","c","1","2","3">>}

\* math.log2(pool) in millionths, for the pools entropy() can form
log2_micro(pool) ==
    CASE pool = 10 -> 3321928
      [] pool = 26 -> 4700440
      [] pool = 32 -> 5000000
      [] pool = 36 -> 5169925
      [] pool = 42 -> 5392317
      [] pool = 52 -> 5700440
      [] pool = 58 -> 5857981
      [] pool = 62 -> 5954196
      [] pool = 68 -> 6087463
      [] pool = 84 -> 6392317
      [] pool = 94 -> 6554589

\* BasicPasswordAnalyzer.entropy, in hundredths
entropy(pw) ==
    LET pool == (IF contains_lowercase(pw) THEN 26 ELSE 0)
                  + (IF contains_uppercase(pw) THEN 26 ELSE 0)
                  + (IF contains_digit(pw) THEN 10 ELSE 0)
                  + (IF contains_special(pw) THEN Len(punctuation) ELSE 0)
    IN  IF pool = 0
          THEN 0
          ELSE (password_length(pw) * log2_micro(pool) + 5000) \div 10000

\* sum([...]) of a list of booleans
BoolSum(bs) == Cardinality({i \in 1..Len(bs) : bs[i]})

\* mutation: the length test is strict
ScoreStrictLength(pw) ==
    BoolSum(<<password_length(pw) > 8,
              contains_lowercase(pw),
              contains_uppercase(pw),
              contains_digit(pw),
              contains_special(pw)>>)

\* the score summed in BasicPasswordAnalyzer.strength
Score(pw) ==
    BoolSum(<<password_length(pw) >= 8,
              contains_lowercase(pw),
              contains_uppercase(pw),
              contains_digit(pw),
              contains_special(pw)>>)

\* BasicPasswordAnalyzer.strength
strength(pw) ==
    IF Score(pw) <= 2
      THEN "Weak"
      ELSE IF Score(pw) <= 4
             THEN "Medium"
             ELSE "Strong"

\* mutation: the value is looked up as typed
IsCommonCaseSensitive(pw) == pw.value \in COMMON_PASSWORDS

\* `self._password.value.lower() in self.COMMON_PASSWORDS`
IsCommon(pw) == lower(pw.value) \in COMMON_PASSWORDS

\* BasicPasswordAnalyzer.analyze: the dict as its items in insertion order
BasicAnalyze(pw) ==
    << <<"password", masked(pw)>>,
       <<"length", password_length(pw)>>,
       <<"entropy", entropy(pw)>>,
       <<"strength", strength(pw)>>,
       <<"is_common", IsCommon(pw)>> >>

---------------------------------------------------------------------------
(* class AdvancedPasswordAnalyzer                                          *)

\* range(a, b)
PyRange(a, b) == a..(b - 1)

\* an index of a slice brought into 0..n
SliceIndex(i, n) ==
    IF i < 0
      THEN (IF i + n < 0 THEN 0 ELSE i + n)
      ELSE (IF i > n THEN n ELSE i)

\* s[a:b]
Slice(s, a, b) ==
    LET lo == SliceIndex(a, Len(s))
        hi == SliceIndex(b, Len(s))
    IN  IF hi <= lo THEN <<>> ELSE SubSeq(s, lo + 1, hi)

\* range(1, n // 2 + 1)
PatternSizes(n) == PyRange(1, n \div 2 + 1)

\* mutation: the last start offset is left out
PatternStartsShort(n, size) == PyRange(0, n - 2 * size)

\* range(n - 2 * size + 1)
PatternStarts(n, size) == PyRange(0, n - 2 * size + 1)

\* AdvancedPasswordAnalyzer.has_repeated_patterns
has_repeated_patterns(pw) ==
    LET v == pw.value
        n == Len(v)
    IN  \E size \in PatternSizes(n) :
          \E start \in PatternStarts(n, size) :
            Slice(v, start, start + size) = Slice(v, start + size, start + 2 * size)

\* d[key] = value on a dict held as its items in insertion order
DictSet(d, key, value) ==
    IF \E i \in 1..Len(d) : d[i][1] = key
      THEN [i \in 1..Len(d) |-> IF d[i][1] = key THEN <<key, value>> ELSE d[i]]
      ELSE Append(d, <<key, value>>)

\* mutation: has_repeats is put in front of the inherited items
AdvancedAnalyzeRepeatsFirst(pw) ==
    << <<"has_repeats", has_repeated_patterns(pw)>> >> \o BasicAnalyze(pw)

\* AdvancedPasswordAnalyzer.analyze
AdvancedAnalyze(pw) ==
    DictSet(BasicAnalyze(pw), "has_repeats", has_repeated_patterns(pw))

---------------------------------------------------------------------------
(* class PasswordGenerator                                                 *)

\* the characters random.choice / random.choices are followed over
UpperSample == {ascii_uppercase[1]}

LowerSample == {ascii_lowercase[1]}

DigitSample == {digits[2]}

PunctSample == {punctuation[1]}

\* string.ascii_letters + string.digits + string.punctuation, cut to the samples
PoolSample ==
    {c \in Range(ascii_letters \o digits \o punctuation) :
        c \in UpperSample \cup LowerSample \cup DigitSample \cup PunctSample}

\* mutation: the comparison is the wrong way round
BelowMinimumFlipped(len, pol) == len > pol.min_length

\* `length < self._policy.min_length`
BelowMinimum(len, pol) == len < pol.min_length

\* mutation: no uppercase letter is seeded
SeedCharsNoUpper(u, l, d, p) == <<l, d, p>>

\* mutation: no punctuation character is seeded
SeedCharsNoSpecial(u, l, d, p) == <<u, l, d>>

\* the list of the four seeded characters
SeedChars(u, l, d, p) == <<u, l, d, p>>

\* random.choices(population, k=k): every list of k draws; a k below 1
\* gives the empty list
Choices(population, k) == IF k <= 0 THEN {<<>>} ELSE [1..k -> population]

\* random.shuffle(chars): every reordering
Shuffles(cs) == {[i \in 1..Len(cs) |-> cs[p[i]]] : p \in Permutations(1..Len(cs))}

---------------------------------------------------------------------------
(* Policies and arguments followed by the model                            *)

Policies ==
    {PasswordPolicy(m, u, l, d, s) :
        m \in 0..MaxMinLength, u \in BOOLEAN, l \in BOOLEAN,
        d \in BOOLEAN, s \in BOOLEAN}

Lengths == 0..MaxLength

ClassSample == {"A", "a", "1", "!", " "}

StringsUpTo(alphabet, n) == UNION {[1..k -> alphabet] : k \in 0..n}

CallerInputs ==
    {PyStr(s) : s \in StringsUpTo(ClassSample, MaxInputLen)}
        \cup {PyInt(12345), PyInt(0), PyNone}

---------------------------------------------------------------------------
(* Operations                                                              *)

Init ==
    /\ policy \in Policies
    /\ password = NoPassword
    /\ arg = PyNone
    /\ length = 0
    /\ chars = <<>>
    /\ attempts = 0
    /\ pc = "start"
    /\ err = "none"
    /\ ret = <<>>

\* Password(value) by a caller
Construct(v) ==
    /\ pc = "start"
    /\ arg' = v
    /\ LET r == PasswordInit(v) IN
         /\ err' = r.raised
         /\ password' = r.object
         /\ pc' = IF r.raised = "none" THEN "constructed" ELSE "raised_init"
    /\ UNCHANGED <<policy, length, chars, attempts, ret>>

\* policy.validate(password) by a caller
PolicyValidate ==
    /\ pc \in {"constructed", "returned"}
    /\ ret' = Validate(policy, password)
    /\ pc' = IF pc = "returned" THEN "validated_generated" ELSE "validated"
    /\ UNCHANGED <<policy, password, arg, length, chars, attempts, err>>

\* generator.generate(len): the upfront test
GenerateCall(len) ==
    /\ pc = "start"
    /\ length' = len
    /\ IF BelowMinimum(len, policy)
         THEN /\ err' = "ValueError"
              /\ pc' = "raised_generate"
         ELSE /\ err' = err
              /\ pc' = "loop"
    /\ UNCHANGED <<policy, password, arg, chars, attempts, ret>>

\* one pass of the `while True` body up to Password("".join(chars))
GenerateBuild ==
    /\ pc = "loop"
    /\ attempts < MaxAttempts
    /\ attempts' = attempts + 1
    /\ \E u \in UpperSample, l \in LowerSample, d \in DigitSample, p \in PunctSample :
         \E extra \in Choices(PoolSample, length - 4) :
           \E shuffled \in Shuffles(SeedChars(u, l, d, p) \o extra) :
             /\ chars' = shuffled
             /\ LET r == PasswordInit(PyStr(shuffled)) IN
                  /\ err' = r.raised
                  /\ password' = r.object
                  /\ pc' = IF r.raised = "none" THEN "validate" ELSE "raised_generate"
    /\ UNCHANGED <<policy, arg, length, ret>>

\* `if self._policy.validate(password): return password`, else loop again
GenerateValidate ==
    /\ pc = "validate"
    /\ IF Validate(policy, password)
         THEN pc' = "returned"
         ELSE pc' = "loop"
    /\ UNCHANGED <<policy, password, arg, length, chars, attempts, err, ret>>

\* a caller builds a Password from any of the followed arguments
CallerConstruct == pc = "start" /\ \E v \in CallerInputs : Construct(v)

\* a caller asks the generator for any of the followed lengths
GeneratorGenerate == pc = "start" /\ \E len \in Lengths : GenerateCall(len)

Next ==
    \/ CallerConstruct
    \/ PolicyValidate
    \/ GeneratorGenerate
    \/ GenerateBuild
    \/ GenerateValidate

Spec == Init /\ [][Next]_vars

---------------------------------------------------------------------------
(* Properties                                                              *)

FlagsOff(pol) ==
    ~pol.require_upper /\ ~pol.require_lower /\ ~pol.require_digit /\ ~pol.require_special

HasCharIn(v, class) == Range(v) \cap Range(class) # {}

\* C1: a password returned by generate(length) has exactly `length`
\* characters and passes policy.validate, for every accepted length.
GenerateReturnsLengthAndValid ==
    pc = "returned" =>
        /\ Len(password.value) = length
        /\ Validate(policy, password)

\* C2: generate(length) with length < policy.min_length raises ValueError
\* at once: no pass of the loop has run, no candidate and no password exist.
BelowMinimumRaisesAtOnce ==
    (pc \in {"loop", "validate", "returned", "validated_generated", "raised_generate"}
        /\ length < policy.min_length) =>
        /\ pc = "raised_generate"
        /\ err = "ValueError"
        /\ attempts = 0
        /\ chars = <<>>
        /\ password = NoPassword

BelowMinimumRaised ==
    /\ pc = "raised_generate"
    /\ err = "ValueError"
    /\ length = 2
    /\ policy.min_length = 3
    /\ FlagsOff(policy)

\* C3: policy.validate(password) is true exactly when the password is at
\* least min_length long and has a character of every class the policy
\* requires; a class that is not required never rejects.
ValidateIffLengthAndRequiredClasses ==
    pc \in {"validated", "validated_generated"} =>
        /\ ret = TRUE \/ ret = FALSE
        /\ ret <=>
             /\ Len(password.value) >= policy.min_length
             /\ policy.require_upper => HasCharIn(password.value, ascii_uppercase)
             /\ policy.require_lower => HasCharIn(password.value, ascii_lowercase)
             /\ policy.require_digit => HasCharIn(password.value, digits)
             /\ policy.require_special => HasCharIn(password.value, punctuation)
        /\ (FlagsOff(policy) /\ Len(password.value) >= policy.min_length) => ret

ValidateAcceptsWithoutUnrequiredClass ==
    /\ pc = "validated"
    /\ ret = TRUE
    /\ ~policy.require_upper
    /\ ~HasCharIn(password.value, ascii_uppercase)
    /\ policy.require_digit
    /\ policy.min_length = 2

\* C4: Password("") raises ValueError, Password(non-string) raises
\* TypeError, and every Password object holds a non-empty string.
PasswordInitRejectsEmptyAndNonString ==
    /\ (pc \in {"constructed", "validated", "raised_init"} /\ arg = PyStr(<<>>)) =>
          pc = "raised_init" /\ err = "ValueError" /\ ~password.exists
    /\ (pc \in {"constructed", "validated", "raised_init"} /\ arg.type # "str") =>
          pc = "raised_init" /\ err = "TypeError" /\ ~password.exists
    /\ password.exists => Len(password.value) > 0

FalsyNonStringRejected ==
    /\ pc = "raised_init"
    /\ arg = PyInt(0)
    /\ err = "TypeError"

\* C9: every password generate returns has an uppercase letter, a lowercase
\* letter, a digit and a punctuation character, whatever the policy requires.
GeneratedHasAllFourClasses ==
    pc \in {"returned", "validated_generated"} =>
        /\ HasCharIn(password.value, ascii_uppercase)
        /\ HasCharIn(password.value, ascii_lowercase)
        /\ HasCharIn(password.value, digits)
        /\ HasCharIn(password.value, punctuation)

GeneratedUnderNoRequirement ==
    /\ pc = "returned"
    /\ FlagsOff(policy)
    /\ length = 5
    /\ Len(password.value) = 5

---------------------------------------------------------------------------
(* The analyzers over one default policy                                   *)

PatternSample == {"a", "b", "c", "d"}

Blanks(k) == [i \in 1..k |-> " "]

\* strings of every mix of classes, lengthened with blanks up to and past 8
ClassInputs ==
    {b \o Blanks(k) : b \in StringsUpTo(ClassSample, MaxBaseLen), k \in 0..MaxPad}

upper_char(c) ==
    IF islower(c)
      THEN ascii_uppercase[CHOOSE i \in 1..Len(ascii_lowercase) : ascii_lowercase[i] = c]
      ELSE c

\* e with the letters at any set of positions in uppercase
CaseVariants(e) ==
    {[i \in 1..Len(e) |-> IF i \in S THEN upper_char(e[i]) ELSE e[i]] :
        S \in SUBSET (1..Len(e))}

Password1 == <<"P","a","s","s","w","o","r","d","1","!">>

\* the denylist in every casing, and each with a character more or less
DenyInputs ==
    LET V == UNION {CaseVariants(e) : e \in COMMON_PASSWORDS}
    IN  V \cup {v \o <<c>> : v \in V, c \in {"1", "!"}}
          \cup {<<c>> \o v : v \in V, c \in {"1", "!"}}
          \cup {SubSeq(v, 1, Len(v) - 1) : v \in V}
          \cup {Password1}

AnalyzerInputs ==
    {PyStr(s) : s \in StringsUpTo(PatternSample, MaxPatternLen)
                      \cup ClassInputs \cup DenyInputs}

\* PasswordPolicy(): the defaults of __init__
DefaultPolicy == PasswordPolicy(8, TRUE, TRUE, TRUE, TRUE)

InitAnalysis ==
    /\ policy = DefaultPolicy
    /\ password = NoPassword
    /\ arg = PyNone
    /\ length = 0
    /\ chars = <<>>
    /\ attempts = 0
    /\ pc = "start"
    /\ err = "none"
    /\ ret = <<>>

\* BasicPasswordAnalyzer(password).analyze()
BasicAnalyzerAnalyze ==
    /\ pc = "constructed"
    /\ ret' = BasicAnalyze(password)
    /\ pc' = "analyzed_basic"
    /\ UNCHANGED <<policy, password, arg, length, chars, attempts, err>>

\* AdvancedPasswordAnalyzer(password).analyze()
AdvancedAnalyzerAnalyze ==
    /\ pc = "constructed"
    /\ ret' = AdvancedAnalyze(password)
    /\ pc' = "analyzed_advanced"
    /\ UNCHANGED <<policy, password, arg, length, chars, attempts, err>>

\* analyzer.strength()
AnalyzerStrength ==
    /\ pc = "constructed"
    /\ ret' = strength(password)
    /\ pc' = "strength"
    /\ UNCHANGED <<policy, password, arg, length, chars, attempts, err>>

\* AdvancedPasswordAnalyzer(password).has_repeated_patterns()
AnalyzerHasRepeatedPatterns ==
    /\ pc = "constructed"
    /\ ret' = has_repeated_patterns(password)
    /\ pc' = "has_repeats"
    /\ UNCHANGED <<policy, password, arg, length, chars, attempts, err>>

\* the password handed to the analyzers is built
AnalyzerConstruct == pc = "start" /\ \E v \in AnalyzerInputs : Construct(v)

NextAnalysis ==
    \/ AnalyzerConstruct
    \/ BasicAnalyzerAnalyze
    \/ AdvancedAnalyzerAnalyze
    \/ AnalyzerStrength
    \/ AnalyzerHasRepeatedPatterns

SpecAnalysis == InitAnalysis /\ [][NextAnalysis]_vars

---------------------------------------------------------------------------
(* Properties of the analyzers                                             *)

Keys(d) == [i \in 1..Len(d) |-> d[i][1]]

Lookup(d, key) == d[CHOOSE i \in 1..Len(d) : d[i][1] = key][2]

BasicKeys == <<"password", "length", "entropy", "strength", "is_common">>

\* C5: Basic analyze() has exactly the keys password, length, entropy,
\* strength, is_common in that order and never has_repeats; Advanced
\* analyze() has the same five keys followed by has_repeats.
AnalyzeKeysInOrder ==
    /\ pc = "analyzed_basic" =>
          /\ Keys(ret) = BasicKeys
          /\ \A i \in 1..Len(ret) : ret[i][1] # "has_repeats"
    /\ pc = "analyzed_advanced" =>
          /\ Keys(ret) = BasicKeys \o <<"has_repeats">>
          /\ SubSeq(ret, 1, 5) = BasicAnalyze(password)

AdvancedAnalyzedWithRepeat ==
    /\ pc = "analyzed_advanced"
    /\ password.value = <<"a", "b", "a", "b">>
    /\ ret[6] = <<"has_repeats", TRUE>>

\* an adjacent pair of equal blocks of size s at offset i, character by character
RepeatAt(v, s, i) ==
    /\ i + 2 * s <= Len(v)
    /\ \A k \in 1..s : v[i + k] = v[i + s + k]

\* C6: has_repeated_patterns() is true exactly when some block of size
\* s >= 1 at some offset i >= 0 with i + 2s <= n equals the block right
\* after it; false for length 1, true for "abab", false for "abcd"; every
\* pair of slices the loops compare lies inside the string and has size s.
RepeatsIffAdjacentEqualBlocks ==
    pc = "has_repeats" =>
        LET v == password.value
            n == Len(v)
        IN  /\ ret <=> \E s \in 1..n : \E i \in 0..n : RepeatAt(v, s, i)
            /\ n = 1 => ~ret
            /\ v = <<"a", "b", "a", "b">> => ret
            /\ v = <<"a", "b", "c", "d">> => ~ret
            /\ \A size \in PatternSizes(n) : \A start \in PatternStarts(n, size) :
                 /\ start >= 0
                 /\ start + 2 * size <= n
                 /\ Len(Slice(v, start, start + size)) = size
                 /\ Len(Slice(v, start + size, start + 2 * size)) = size

RepeatFoundAtLastOffset ==
    /\ pc = "has_repeats"
    /\ password.value = <<"a", "b", "c", "c">>
    /\ ret = TRUE

\* the conditions strength() counts, by name
StrengthConditions(v) ==
    (IF Len(v) >= 8 THEN {"length"} ELSE {})
      \cup (IF HasCharIn(v, ascii_lowercase) THEN {"lower"} ELSE {})
      \cup (IF HasCharIn(v, ascii_uppercase) THEN {"upper"} ELSE {})
      \cup (IF HasCharIn(v, digits) THEN {"digit"} ELSE {})
      \cup (IF HasCharIn(v, punctuation) THEN {"special"} ELSE {})

\* C7: strength() is "Weak" iff at most 2 of the five conditions hold,
\* "Medium" iff 3 or 4 hold, "Strong" iff all 5 hold.
StrengthByScore ==
    pc = "strength" =>
        LET score == Cardinality(StrengthConditions(password.value))
        IN  /\ ret \in {"Weak", "Medium", "Strong"}
            /\ ret = "Weak" <=> score <= 2
            /\ ret = "Medium" <=> score \in {3, 4}
            /\ ret = "Strong" <=> score = 5

StrongAtLengthEight ==
    /\ pc = "strength"
    /\ ret = "Strong"
    /\ Len(password.value) = 8

\* v is e with some of its letters in uppercase
CaseVariantOf(v, e) ==
    /\ Len(v) = Len(e)
    /\ \A i \in 1..Len(e) :
         \/ v[i] = e[i]
         \/ \E j \in 1..Len(ascii_lowercase) :
              ascii_lowercase[j] = e[i] /\ ascii_uppercase[j] = v[i]

\* v is longer than e and holds a case variant of e as a substring
ProperlyContains(v, e) ==
    /\ Len(v) > Len(e)
    /\ \E k \in 1..(Len(v) - Len(e) + 1) :
         CaseVariantOf(SubSeq(v, k, k + Len(e) - 1), e)

\* C8: is_common is true exactly when the value is a denylist entry up to
\* letter case; "PASSWORD" is common, "Password1!" and every other value
\* that only contains an entry are not.
IsCommonIffCaseInsensitiveExactMatch ==
    pc \in {"analyzed_basic", "analyzed_advanced"} =>
        LET v == password.value
            common == Lookup(ret, "is_common")
        IN  /\ common <=> \E e \in COMMON_PASSWORDS : CaseVariantOf(v, e)
            /\ v = [i \in 1..Len(Chars8) |-> upper_char(Chars8[i])] => common
            /\ v = Password1 => ~common
            /\ (\E e \in COMMON_PASSWORDS : ProperlyContains(v, e)) => ~common

UppercaseEntryIsCommon ==
    /\ pc = "analyzed_basic"
    /\ password.value = <<"P","A","S","S","W","O","R","D">>
    /\ Lookup(ret, "is_common") = TRUE

====
